---- MODULE Spec2Model ----
(***************************************************************************)
(* Model of the HTML -> EPUB scripts prepare_html.py and html_to_epub.py.  *)
(*                                                                         *)
(* Strings are sequences of atoms.  The atoms "." and "/" are the two      *)
(* characters the path code looks at; every other atom ("images", "Ch_",   *)
(* "x", ...) stands for a run of characters holding neither of them.       *)
(* A file system is a record [files, dirs]: files maps a canonical path (a *)
(* sequence of components, each a string) to a file content, dirs is the   *)
(* set of canonical paths that are directories.                            *)
(***************************************************************************)
EXTENDS Integers, Sequences, FiniteSets, TLC

(* ---------------------------- bounds ---------------------------------- *)

\* longest list of elements of a generated input document
MaxEls == 2
\* largest number of chapter files that are missing when ddia() starts
MaxMissing == 1

(* ------------------------ Python string helpers ----------------------- *)

DOT == "."
SEP == "/"

RECURSIVE Replace(_, _, _)
\* str.replace(old, new): every non-overlapping occurrence, left to right
Replace(s, old, new) ==
    IF Len(s) < Len(old) THEN s
    ELSE IF SubSeq(s, 1, Len(old)) = old
         THEN new \o Replace(SubSeq(s, Len(old) + 1, Len(s)), old, new)
         ELSE <<Head(s)>> \o Replace(Tail(s), old, new)

\* index of the last "/" of p, 0 when there is none (p.rfind("/") + 1)
LastSep(p) ==
    LET S == {i \in 1..Len(p) : p[i] = SEP}
    IN  IF S = {} THEN 0 ELSE CHOOSE i \in S : \A j \in S : j <= i

RECURSIVE RStripSep(_)
RStripSep(p) ==
    IF p # <<>> /\ p[Len(p)] = SEP THEN RStripSep(SubSeq(p, 1, Len(p) - 1)) ELSE p

\* os.path.basename
Basename(p) == SubSeq(p, LastSep(p) + 1, Len(p))

\* os.path.dirname: the head up to the last "/", trailing slashes stripped
\* unless the head is made of slashes only
Dirname(p) ==
    LET head == SubSeq(p, 1, LastSep(p))
    IN  IF RStripSep(head) = <<>> THEN head ELSE RStripSep(head)

\* os.path.join(a, b)
Join(a, b) ==
    IF b # <<>> /\ Head(b) = SEP THEN b
    ELSE IF a = <<>> \/ a[Len(a)] = SEP THEN a \o b
    ELSE a \o <<SEP>> \o b

(* ----------------------------- file system ---------------------------- *)

\* the working directory the scripts are started in
Cwd == << <<"w">> >>

RECURSIVE Split(_)
\* the components of a path string, split at every "/"
Split(p) ==
    LET S == {i \in 1..Len(p) : p[i] = SEP}
    IN  IF S = {} THEN <<p>>
        ELSE LET i == CHOOSE i \in S : \A j \in S : i <= j
             IN  <<SubSeq(p, 1, i - 1)>> \o Split(SubSeq(p, i + 1, Len(p)))

IsDir(fs, at) == at = <<>> \/ at \in fs.dirs
IsFile(fs, at) == at \in DOMAIN fs.files

Parent(at) == IF at = <<>> THEN at ELSE SubSeq(at, 1, Len(at) - 1)

RECURSIVE Walk(_, _, _)
\* the kernel's path walk: consume the components from directory `at`
Walk(fs, comps, at) ==
    IF comps = <<>> THEN [ok |-> TRUE, at |-> at]
    ELSE IF ~IsDir(fs, at) THEN [ok |-> FALSE, at |-> at]
    ELSE LET h == Head(comps)
         IN  IF h = <<>> \/ h = <<DOT>> THEN Walk(fs, Tail(comps), at)
             ELSE IF h = <<DOT, DOT>> THEN Walk(fs, Tail(comps), Parent(at))
             ELSE Walk(fs, Tail(comps), Append(at, h))

\* the canonical location a path string denotes
Resolve(fs, p) ==
    IF p = <<>> THEN [ok |-> FALSE, at |-> <<>>]
    ELSE Walk(fs, Split(p), IF Head(p) = SEP THEN <<>> ELSE Cwd)

\* os.path.exists
Exists(fs, p) ==
    LET r == Resolve(fs, p) IN r.ok /\ (IsFile(fs, r.at) \/ IsDir(fs, r.at))

\* os.path.isdir, as open() and shutil.copy meet it
PathIsDir(fs, p) ==
    LET r == Resolve(fs, p) IN r.ok /\ IsDir(fs, r.at)

Prefixes(at) == {SubSeq(at, 1, n) : n \in 1..Len(at)}

\* os.makedirs(p, exist_ok=True) on a path of plain names
Makedirs(fs, p) ==
    LET at == Resolve(fs, p).at
    IN  [fs EXCEPT !.dirs = @ \cup Prefixes(at)]

\* mutant of WriteFile: the file opened in append mode, so that what is
\* written follows what the file already holds
WriteFileAppend(fs, p, c) ==
    LET at == Resolve(fs, p).at
        old == IF at \in DOMAIN fs.files THEN fs.files[at].els ELSE <<>>
    IN  [fs EXCEPT !.files = (at :> [c EXCEPT !.els = old \o @]) @@ @]

\* open(p, "w").write(c)
WriteFile(fs, p, c) ==
    LET at == Resolve(fs, p).at
    IN  [fs EXCEPT !.files = (at :> c) @@ @]

ReadFile(fs, p) == fs.files[Resolve(fs, p).at]

(* ------------------------------ documents ----------------------------- *)

\* A parsed document: its elements in document order.  bodyFrom = 0 when the
\* document has no <body>, else the index of the first element inside it (the
\* elements before it belong to <head>).  divId = "none" when there is no
\* <div id=...>, else the div is the last child and holds the elements from
\* index divFrom on.
El(tag, src, width, height) ==
    [tag |-> tag, src |-> src, width |-> width, height |-> height]

Plain(tag) == El(tag, <<>>, FALSE, FALSE)

S_x == <<"x">>
S_m == <<"m">>
S_i == <<"i">>
S_dot_i_x == <<DOT, SEP, "i", SEP, "x">>
S_up_i_x == <<DOT, DOT, SEP, "i", SEP, "x">>
S_adot_x == <<"a", DOT, SEP, "x">>
S_out_x == <<"Ch_", "1", SEP, "images", SEP, "Ch_", "1", "_", "x">>

\* the elements input documents are built from
Elements ==
    { Plain("script"), Plain("style"), Plain("nav"), Plain("link"),
      El("img", S_x, TRUE, TRUE), El("img", S_x, FALSE, FALSE),
      El("img", S_m, TRUE, TRUE), El("img", <<>>, TRUE, TRUE),
      El("img", S_dot_i_x, TRUE, FALSE), El("img", S_up_i_x, FALSE, FALSE),
      El("img", S_adot_x, FALSE, TRUE), El("img", S_i, FALSE, FALSE),
      El("img", S_out_x, FALSE, FALSE) }

ElSeqs(n) == UNION {[1..m -> Elements] : m \in 0..n}

DivIds == {"none", "sbo-rt-content", "book-content"}

Html(els, bodyFrom, divId, divFrom) ==
    [bytes |-> "html", els |-> els, bodyFrom |-> bodyFrom,
     divId |-> divId, divFrom |-> divFrom]

Max(a, b) == IF a >= b THEN a ELSE b

\* the input documents of at most n elements
Docs(n) ==
    { Html(els, b, d, f) :
        els \in ElSeqs(n), b \in 0..2, d \in DivIds, f \in 0..(n + 1) }

WellFormed(doc) ==
    /\ doc.bodyFrom <= Len(doc.els) + 1
    /\ IF doc.divId = "none" THEN doc.divFrom = 0
       ELSE doc.divFrom \in Max(1, doc.bodyFrom)..(Len(doc.els) + 1)

\* an image file: bytes only
Bin(b) == [Html(<<>>, 0, "none", 0) EXCEPT !.bytes = b]

(* ------------------------- BeautifulSoup queries ----------------------- *)

\* indices of the elements below the node that starts at index `start`, in
\* document order, whose tag is in `tags` (node.find_all(tags))
FindAll(doc, start, tags) ==
    {i \in start..Len(doc.els) : doc.els[i].tag \in tags}

\* the n-th smallest member of a set of indices
RECURSIVE Nth(_, _)
Nth(S, n) ==
    LET lo == CHOOSE i \in S : \A j \in S : i <= j
    IN  IF n = 1 THEN lo ELSE Nth(S \ {lo}, n - 1)

RECURSIVE Without(_, _, _)
\* els with the indices of D dropped; i is the index of Head(els)
Without(els, D, i) ==
    IF els = <<>> THEN <<>>
    ELSE (IF i \in D THEN <<>> ELSE <<Head(els)>>) \o Without(Tail(els), D, i + 1)

\* an index after the elements of D before it are dropped
Shift(p, D) == p - Cardinality({i \in D : i < p})

\* for x in node.find_all(tags): x.decompose()
Decompose(doc, start, tags) ==
    LET D == FindAll(doc, start, tags)
    IN  [doc EXCEPT !.els = Without(doc.els, D, 1),
                    !.bodyFrom = IF @ = 0 THEN 0 ELSE Shift(@, D),
                    !.divFrom = IF doc.divId = "none" THEN 0 ELSE Shift(@, D)]

\* str(node): the node that starts at index `start`, as a document of its own
Serialize(doc, start) ==
    Html(SubSeq(doc.els, start, Len(doc.els)),
         IF doc.bodyFrom > 0 /\ doc.bodyFrom <= start THEN 1 ELSE 0,
         doc.divId,
         IF doc.divId = "none" THEN 0 ELSE doc.divFrom - start + 1)

\* soup.body if soup.body else soup
BodyOrSoup(doc) == IF doc.bodyFrom > 0 THEN doc.bodyFrom ELSE 1

\* clean_html_for_epub: defined in both scripts, called by neither
clean_html_for_epub(html_content) ==
    LET a == Decompose(html_content, 1, {"script", "style"})
        b == Decompose(a, 1, {"nav", "header", "footer"})
    IN  IF b.divId = "book-content"
        THEN Serialize(Decompose(b, b.divFrom, {"link"}), b.divFrom)
        ELSE Serialize(b, BodyOrSoup(b))

(* ------------------------------ image step ---------------------------- *)

\* src.replace("./", "")
Normalize(src) == Replace(src, <<DOT, SEP>>, <<>>)

\* img_path = os.path.join(os.path.dirname(html_file), img_path)
ImgPath(html_file, src) == Join(Dirname(html_file), Normalize(src))

\* mutant of NewName: the chapter label left out of the copy's name
NewNameNoLabel(chapter_label, original_name) == original_name

\* new_name = f"{chapter_label}_{original_name}"
NewName(chapter_label, original_name) == chapter_label \o <<"_">> \o original_name

\* f"images/{name}"
ImagesSrc(name) == <<"images", SEP>> \o name

\* mutant of StripSizes: the height attribute is left on the element
StripWidthOnly(el) == [el EXCEPT !.width = FALSE]

\* del img["width"]; del img["height"], each when present
StripSizes(el) == [el EXCEPT !.width = FALSE, !.height = FALSE]

\* mutant of Lookup: the `if not src: continue` test left out
LookupNoEmptyCheck(fs, src, img_path) ==
    IF ~Exists(fs, img_path) THEN "missing"
    ELSE IF PathIsDir(fs, img_path) THEN "dir"
    ELSE "file"

\* what the loop body finds at img_path
Lookup(fs, src, img_path) ==
    IF src = <<>> THEN "empty"
    ELSE IF ~Exists(fs, img_path) THEN "missing"
    ELSE IF PathIsDir(fs, img_path) THEN "dir"
    ELSE "file"

\* the record kept of one pass of the loop body over element i
LogRec(fs, i, src, img_path, kind) ==
    [i |-> i, src |-> src, img_path |-> img_path, kind |-> kind,
     from |-> IF kind = "file" THEN Resolve(fs, img_path).at ELSE <<>>,
     data |-> IF kind = "file" THEN ReadFile(fs, img_path).bytes ELSE ""]

\* shutil.copy(src, dst) of a regular file onto a file path
CopyFile(fs, src, dst) == WriteFile(fs, dst, ReadFile(fs, src))

\* mutant of PrepareImg: the strict variant, which raises on a missing image
\* file instead of skipping the element
PrepareImgStrict(fs, soup, i, html_file, output_path, chapter_label) ==
    LET img == soup.els[i]
        src == img.src
        img_path == ImgPath(html_file, src)
        kind == Lookup(fs, src, img_path)
        new_name == NewName(chapter_label, Basename(img_path))
        new_img_path == Join(Join(output_path, <<"images">>), new_name)
        rec == LogRec(fs, i, src, img_path, kind)
        same == [fs |-> fs, soup |-> soup, err |-> "", rec |-> rec]
    IN  CASE kind = "empty" -> same
          [] kind = "missing" -> [same EXCEPT !.err = "FileNotFoundError"]
          [] kind = "dir" -> [same EXCEPT !.err = "IsADirectoryError"]
          [] kind = "file" /\ Resolve(fs, new_img_path).at = rec.from ->
                [same EXCEPT !.err = "SameFileError"]
          [] OTHER ->
                [same EXCEPT
                   !.fs = CopyFile(fs, img_path, new_img_path),
                   !.soup.els[i] =
                       StripSizes([img EXCEPT !.src = ImagesSrc(new_name)])]

\* prepare_html: one pass of the loop body over element i of soup
PrepareImg(fs, soup, i, html_file, output_path, chapter_label) ==
    LET img == soup.els[i]
        src == img.src
        img_path == ImgPath(html_file, src)
        kind == Lookup(fs, src, img_path)
        new_name == NewName(chapter_label, Basename(img_path))
        new_img_path == Join(Join(output_path, <<"images">>), new_name)
        rec == LogRec(fs, i, src, img_path, kind)
        same == [fs |-> fs, soup |-> soup, err |-> "", rec |-> rec]
    IN  CASE kind \in {"empty", "missing"} -> same
          [] kind = "dir" -> [same EXCEPT !.err = "IsADirectoryError"]
          [] kind = "file" /\ Resolve(fs, new_img_path).at = rec.from ->
                [same EXCEPT !.err = "SameFileError"]
          [] OTHER ->
                [same EXCEPT
                   !.fs = CopyFile(fs, img_path, new_img_path),
                   !.soup.els[i] =
                       StripSizes([img EXCEPT !.src = ImagesSrc(new_name)])]

\* html_to_epub: the node the chapter is taken from
EpubContent(doc) ==
    IF doc.divId = "sbo-rt-content" THEN doc.divFrom
    ELSE IF doc.divId = "book-content" THEN doc.divFrom
    ELSE BodyOrSoup(doc)

Item(file_name, content) == [file_name |-> file_name, content |-> content]

\* book.add_item(item)
AddItem(book, item) == [book EXCEPT !.items = Append(@, item)]

\* html_to_epub: one pass of the loop body over element i of soup
EpubImg(fs, soup, i, html_file, book) ==
    LET img == soup.els[i]
        src == img.src
        img_path == ImgPath(html_file, src)
        kind == Lookup(fs, src, img_path)
        epub_img_name == ImagesSrc(Basename(img_path))
        rec == LogRec(fs, i, src, img_path, kind)
        same == [book |-> book, soup |-> soup, err |-> "", rec |-> rec]
    IN  CASE kind \in {"empty", "missing"} -> same
          [] kind = "dir" -> [same EXCEPT !.err = "IsADirectoryError"]
          [] OTHER ->
                [same EXCEPT
                   !.book = AddItem(book, Item(epub_img_name, Bin(rec.data))),
                   !.soup.els[i] =
                       StripSizes([img EXCEPT !.src = epub_img_name])]

(* ------------------------- the scripts' constants --------------------- *)

S_ddia == <<"ddia">>
S_article_html == <<"article", DOT, "html">>
S_epub_out == <<"ddia-chapter1", DOT, "epub">>
S_chap_01 == <<"chap_01", DOT, "xhtml">>
S_main_css == <<"style", SEP, "main", DOT, "css">>
S_processed == <<"processed_article", DOT, "html">>

\* f_names = ["preface"] + list(range(1, 15)) + ["glossary", "index", "authors"]
f_names ==
    << <<"preface">>, <<"1">>, <<"2">>, <<"3">>, <<"4">>, <<"5">>, <<"6">>, <<"7">>,
       <<"8">>, <<"9">>, <<"10">>, <<"11">>, <<"12">>, <<"13">>, <<"14">>,
       <<"glossary">>, <<"index">>, <<"authors">> >>

\* input_file = f"{f_name}.html"
InputFile(f_name) == f_name \o <<DOT, "html">>

\* mutant of ChapterLabel: the entry's name left out of the label
ChapterLabelFixed(f_name) == <<"Ch_">>

\* chapter_label = f"Ch_{f_name}"
ChapterLabel(f_name) == <<"Ch_">> \o f_name

\* the arguments ddia() passes for one entry of f_names
DdiaArgs(f_name) ==
    [html_file |-> Join(S_ddia, InputFile(f_name)),
     output_dir |-> S_ddia,
     chapter_label |-> ChapterLabel(f_name)]

\* output_path = os.path.join(output_dir, chapter_label)
OutputPath(a) == Join(a.output_dir, a.chapter_label)

\* processed_html_output_path
ProcessedPath(a) == Join(OutputPath(a), S_processed)

EmptyBook == [items |-> <<>>, spine |-> <<>>, toc |-> <<>>]

(* ------------------------------ the worlds ---------------------------- *)

\* the image files beside the chapters of ddia(): ddia/x, ddia/i/x, i/x,
\* ddia/a./x and ddia/ax, each with bytes of its own
DdiaFiles ==
    ( << <<"w">>, <<"ddia">>, <<"x">> >>               :> Bin("B1") ) @@
    ( << <<"w">>, <<"ddia">>, <<"i">>, <<"x">> >>      :> Bin("B2") ) @@
    ( << <<"w">>, <<"i">>, <<"x">> >>                  :> Bin("B3") ) @@
    ( << <<"w">>, <<"ddia">>, <<"a", DOT>>, <<"x">> >> :> Bin("B4") ) @@
    ( << <<"w">>, <<"ddia">>, <<"ax">> >>              :> Bin("B5") )

\* the image files beside article.html: x, i/x, ../i/x, a./x and ax
EpubFiles ==
    ( << <<"w">>, <<"x">> >>                           :> Bin("B6") ) @@
    ( << <<"w">>, <<"i">>, <<"x">> >>                  :> Bin("B3") ) @@
    ( << <<"i">>, <<"x">> >>                           :> Bin("B7") ) @@
    ( << <<"w">>, <<"a", DOT>>, <<"x">> >>             :> Bin("B8") ) @@
    ( << <<"w">>, <<"ax">> >>                          :> Bin("B9") )

\* the file system holding the files of F and the directories above them
World(F) ==
    [files |-> F, dirs |-> UNION {Prefixes(Parent(f)) : f \in DOMAIN F}]

RECURSIVE SubsetsUpTo(_, _)
SubsetsUpTo(S, n) ==
    IF n = 0 THEN {{}}
    ELSE LET P == SubsetsUpTo(S, n - 1) IN P \cup {q \cup {x} : q \in P, x \in S}

Range(f) == {f[i] : i \in DOMAIN f}

RECURSIVE WriteAll(_, _, _)
\* the world with document doc at the input path of every name in S
WriteAll(fs, S, doc) ==
    IF S = {} THEN fs
    ELSE LET f == CHOOSE f \in S : TRUE
         IN  WriteAll(WriteFile(fs, DdiaArgs(f).html_file, doc), S \ {f}, doc)

\* the chapter documents a ddia() run is started on
DdiaDocs ==
    {d \in Docs(1) : WellFormed(d) /\ Len(d.els) = 1 /\ d.bodyFrom = 1 /\ d.divId = "none"}

NoDoc == Html(<<>>, 0, "none", 0)

(* -------------------------------- state ------------------------------- *)

VARIABLES
    harness,    \* which script runs: "ddia", "twice" (prepare_html's
                \* create_epub_from_html called twice), "epub" (html_to_epub)
    fs,         \* the file system
    pc,         \* the position of the running script
    err,        \* the exception that ended the run, "" when none
    args,       \* the arguments of the running create_epub_from_html
    soup,       \* the parsed document create_epub_from_html works on
    idx,        \* the position of the img loop in content_div.find_all("img")
    k,          \* ddia: the index of the for loop in f_names
    produced,   \* ddia: the chapter labels whose output was written, in order
    run,        \* twice: the number of the current call
    fs1,        \* twice: the file system as the first call left it
    book,       \* html_to_epub: the EpubBook
    log,        \* one record per pass of the img loop of the current call
                \* (of the current entry of f_names in ddia)
    orig        \* the document as the img loop of the current call found it

vars == <<harness, fs, pc, err, args, soup, idx, k, produced, run, fs1, book, log, orig>>

NoArgs == [html_file |-> <<>>, output_dir |-> <<>>, chapter_label |-> <<>>]

Start(h, f, p, a) ==
    /\ harness = h
    /\ fs = f
    /\ pc = p
    /\ args = a
    /\ err = ""
    /\ soup = NoDoc
    /\ idx = 0
    /\ k = 1
    /\ produced = <<>>
    /\ run = 1
    /\ fs1 = f
    /\ book = EmptyBook
    /\ log = <<>>
    /\ orig = NoDoc

\* the documents create_epub_from_html of prepare_html is called on: it never
\* looks at a div, so they have none
PrepareDocs == {d \in Docs(MaxEls) : WellFormed(d) /\ d.divId = "none"}

\* the documents html_to_epub is started on
EpubDocs == {d \in Docs(MaxEls) : WellFormed(d)}

Init ==
    \/ \E missing \in SubsetsUpTo(Range(f_names), MaxMissing), doc \in DdiaDocs :
          Start("ddia", WriteAll(World(DdiaFiles), Range(f_names) \ missing, doc),
                "loop", NoArgs)
    \/ \E doc \in PrepareDocs :
          Start("twice", WriteFile(World(DdiaFiles), DdiaArgs(<<"1">>).html_file, doc),
                "call", DdiaArgs(<<"1">>))
    \/ \E doc \in EpubDocs :
          Start("epub", WriteFile(World(EpubFiles), S_article_html, doc), "main", NoArgs)
    \/ Start("epub", World(EpubFiles), "main", NoArgs)

(* ------------------------------ prepare_html -------------------------- *)

\* the img elements of the content node, in document order
PrepareImgs(doc) == FindAll(doc, BodyOrSoup(doc), {"img"})

\* create_epub_from_html, lines 43-57: make the output directory, read and
\* parse the file, drop the link elements, make the images directory
P_Open ==
    /\ pc = "call"
    /\ harness \in {"ddia", "twice"}
    /\ LET fsA == Makedirs(fs, OutputPath(args))
       IN  IF ~Exists(fsA, args.html_file)
           THEN /\ fs' = fsA
                /\ pc' = "raised"
                /\ err' = "FileNotFoundError"
                /\ UNCHANGED <<soup, idx, log, orig>>
           ELSE LET parsed == ReadFile(fsA, args.html_file)
                    cleaned == Decompose(parsed, BodyOrSoup(parsed), {"link"})
                IN  /\ fs' = Makedirs(fsA, Join(OutputPath(args), <<"images">>))
                    /\ soup' = cleaned
                    /\ orig' = cleaned
                    /\ idx' = 1
                    /\ log' = <<>>
                    /\ pc' = "imgs"
                    /\ err' = err
    /\ UNCHANGED <<harness, args, k, produced, run, fs1, book>>

\* one pass of the for loop over content_div.find_all("img"), lines 58-82
P_Img ==
    /\ pc = "imgs"
    /\ harness \in {"ddia", "twice"}
    /\ idx <= Cardinality(PrepareImgs(soup))
    /\ LET r == PrepareImg(fs, soup, Nth(PrepareImgs(soup), idx), args.html_file,
                           OutputPath(args), args.chapter_label)
       IN  /\ fs' = r.fs
           /\ soup' = r.soup
           /\ log' = Append(log, r.rec)
           /\ err' = r.err
           /\ pc' = IF r.err = "" THEN "imgs" ELSE "raised"
           /\ idx' = IF r.err = "" THEN idx + 1 ELSE idx
    /\ UNCHANGED <<harness, args, k, produced, run, fs1, book, orig>>

\* lines 84-88: write str(content_div) to processed_article.html and return
P_Save ==
    /\ pc = "imgs"
    /\ harness \in {"ddia", "twice"}
    /\ idx > Cardinality(PrepareImgs(soup))
    /\ fs' = WriteFile(fs, ProcessedPath(args), Serialize(soup, BodyOrSoup(soup)))
    /\ pc' = "returned"
    /\ UNCHANGED <<harness, err, args, soup, idx, k, produced, run, fs1, book, log, orig>>

\* mutant of D_Iter: an entry whose input file is missing is passed over
\* instead of ending the run
D_IterSkip ==
    /\ harness = "ddia"
    /\ pc = "loop"
    /\ k <= Len(f_names)
    /\ LET a == DdiaArgs(f_names[k])
       IN  IF ~Exists(fs, a.html_file)
           THEN /\ pc' = "loop"
                /\ k' = k + 1
                /\ args' = args
           ELSE /\ pc' = "call"
                /\ k' = k
                /\ args' = a
    /\ log' = <<>>
    /\ UNCHANGED <<harness, fs, err, soup, idx, produced, run, fs1, book, orig>>

\* ddia, lines 93-102: one entry of f_names: raise when its input file is
\* missing, else call create_epub_from_html
D_Iter ==
    /\ harness = "ddia"
    /\ pc = "loop"
    /\ k <= Len(f_names)
    /\ LET a == DdiaArgs(f_names[k])
       IN  IF ~Exists(fs, a.html_file)
           THEN /\ pc' = "raised"
                /\ err' = "FileNotFoundError"
                /\ args' = args
           ELSE /\ pc' = "call"
                /\ err' = err
                /\ args' = a
    /\ log' = <<>>
    /\ UNCHANGED <<harness, fs, soup, idx, k, produced, run, fs1, book, orig>>

\* ddia: create_epub_from_html returned, go on with the next entry
D_Return ==
    /\ harness = "ddia"
    /\ pc = "returned"
    /\ k' = k + 1
    /\ produced' = Append(produced, args.chapter_label)
    /\ pc' = "loop"
    /\ UNCHANGED <<harness, fs, err, args, soup, idx, run, fs1, book, log, orig>>

\* ddia: the list is exhausted
D_Exit ==
    /\ harness = "ddia"
    /\ pc = "loop"
    /\ k > Len(f_names)
    /\ pc' = "done"
    /\ UNCHANGED <<harness, fs, err, args, soup, idx, k, produced, run, fs1, book, log, orig>>

\* the first call returned: call again with the same arguments
T_Again ==
    /\ harness = "twice"
    /\ pc = "returned"
    /\ run = 1
    /\ run' = 2
    /\ fs1' = fs
    /\ pc' = "call"
    /\ UNCHANGED <<harness, fs, err, args, soup, idx, k, produced, book, log, orig>>

\* the second call returned
T_Done ==
    /\ harness = "twice"
    /\ pc = "returned"
    /\ run = 2
    /\ pc' = "done"
    /\ UNCHANGED <<harness, fs, err, args, soup, idx, k, produced, run, fs1, book, log, orig>>

(* ------------------------------ html_to_epub -------------------------- *)

EpubImgs(doc) == FindAll(doc, EpubContent(doc), {"img"})

\* __main__, lines 226-235: convert article.html when it exists, else print
\* an error
M_Main ==
    /\ harness = "epub"
    /\ pc = "main"
    /\ IF Exists(fs, S_article_html)
       THEN /\ pc' = "call"
            /\ args' = [NoArgs EXCEPT !.html_file = S_article_html]
       ELSE /\ pc' = "done"
            /\ args' = args
    /\ UNCHANGED <<harness, fs, err, soup, idx, k, produced, run, fs1, book, log, orig>>

\* create_epub_from_html, lines 59-89: read and parse the file, make the
\* book, find the content node, drop its link elements
E_Open ==
    /\ harness = "epub"
    /\ pc = "call"
    /\ IF ~Exists(fs, args.html_file)
       THEN /\ pc' = "raised"
            /\ err' = "FileNotFoundError"
            /\ UNCHANGED <<soup, idx, log, orig, book>>
       ELSE LET parsed == ReadFile(fs, args.html_file)
                cleaned == Decompose(parsed, EpubContent(parsed), {"link"})
            IN  /\ soup' = cleaned
                /\ orig' = cleaned
                /\ book' = EmptyBook
                /\ idx' = 1
                /\ log' = <<>>
                /\ pc' = "imgs"
                /\ err' = err
    /\ UNCHANGED <<harness, fs, args, k, produced, run, fs1>>

\* one pass of the for loop over content_div.find_all("img"), lines 91-132
E_Img ==
    /\ harness = "epub"
    /\ pc = "imgs"
    /\ idx <= Cardinality(EpubImgs(soup))
    /\ LET r == EpubImg(fs, soup, Nth(EpubImgs(soup), idx), args.html_file, book)
       IN  /\ book' = r.book
           /\ soup' = r.soup
           /\ log' = Append(log, r.rec)
           /\ err' = r.err
           /\ pc' = IF r.err = "" THEN "imgs" ELSE "raised"
           /\ idx' = IF r.err = "" THEN idx + 1 ELSE idx
    /\ UNCHANGED <<harness, fs, args, k, produced, run, fs1, orig>>

\* lines 134-146: the chapter item and the spine
WithChapter(b, chapter_html) ==
    [AddItem(b, Item(S_chap_01, chapter_html)) EXCEPT !.spine = << <<"nav">>, S_chap_01 >>]

\* lines 148-219: the stylesheet, the table of contents, the navigation files
WithStyleAndNav(b) ==
    LET b1 == AddItem(b, Item(S_main_css, Bin("css")))
        b2 == [b1 EXCEPT !.toc = <<S_chap_01>>]
        b3 == AddItem(b2, Item(<<"toc", DOT, "ncx">>, Bin("ncx")))
    IN  AddItem(b3, Item(<<"nav", DOT, "xhtml">>, Bin("nav")))

\* lines 134-223: assemble the book and write the EPUB file
E_Finish ==
    /\ harness = "epub"
    /\ pc = "imgs"
    /\ idx > Cardinality(EpubImgs(soup))
    /\ book' = WithStyleAndNav(WithChapter(book, Serialize(soup, EpubContent(soup))))
    /\ fs' = WriteFile(fs, S_epub_out, Bin("epub"))
    /\ pc' = "done"
    /\ UNCHANGED <<harness, err, args, soup, idx, k, produced, run, fs1, log, orig>>

(* ---------------------------- specification --------------------------- *)

Next ==
    \/ P_Open \/ P_Img \/ P_Save
    \/ D_Iter \/ D_Return \/ D_Exit
    \/ T_Again \/ T_Done
    \/ M_Main \/ E_Open \/ E_Img \/ E_Finish

Spec == Init /\ [][Next]_vars

(* ------------------------- what the claims speak of ------------------- *)

\* create_epub_from_html of prepare_html has just returned
PrepareReturned == harness \in {"ddia", "twice"} /\ pc = "returned"

\* create_epub_from_html of html_to_epub has written the book
EpubWritten == harness = "epub" /\ pc = "done" /\ book.items # <<>>

\* the processed_article.html the returned call wrote
ProcessedArticle == ReadFile(fs, ProcessedPath(args))

\* the chapter document placed in the book
ChapterDoc ==
    LET n == CHOOSE n \in DOMAIN book.items : book.items[n].file_name = S_chap_01
    IN  book.items[n].content

\* the persisted content of the finished call, and where element i of soup
\* sits in it
OutputDoc == IF harness = "epub" THEN ChapterDoc ELSE ProcessedArticle
OutputPos(i) ==
    i - (IF harness = "epub" THEN EpubContent(soup) ELSE BodyOrSoup(soup)) + 1
Finished == PrepareReturned \/ EpubWritten

Disallowed == {"script", "style", "nav"}

LastOf(seq) == seq[Len(seq)]

\* the passes of the img loop that found a regular file
Found == {j \in DOMAIN log : log[j].kind = "file"}
\* the passes that skipped their element
Skipped == {j \in DOMAIN log : log[j].kind \in {"empty", "missing"}}

(* -------------------------------- claims ------------------------------ *)

\* C1 (as stated): the content persisted by create_epub_from_html, the
\* processed_article.html of prepare_html and the chapter document of
\* html_to_epub, holds no script, style or nav element.
C1_NoDisallowedNodes ==
    Finished => \A n \in DOMAIN OutputDoc.els : OutputDoc.els[n].tag \notin Disallowed

\* C2: every img of the content node whose src is non-empty and whose resolved
\* source file exists has, in the output, the src
\* "images/<chapter_label>_<name of the source file>" in prepare_html and
\* "images/<name of the source file>" in html_to_epub.
C2_SrcRewritten ==
    Finished =>
        \A j \in Found :
            OutputDoc.els[OutputPos(log[j].i)].src =
                IF harness = "epub"
                THEN <<"images", SEP>> \o LastOf(log[j].from)
                ELSE <<"images", SEP>> \o args.chapter_label \o <<"_">> \o LastOf(log[j].from)

\* C2 witness: a prepare_html call returned after rewriting "./i/x", and its
\* output is there to look at
C2_Witness ==
    /\ PrepareReturned
    /\ \E j \in Found : log[j].src = S_dot_i_x

\* the output locations of ddia(): one processed_article.html per chapter
ProcessedFiles == {f \in DOMAIN fs.files : LastOf(f) = S_processed}

\* C3: after a ddia() that does not raise there is exactly one processed
\* output per entry of f_names, no two entries share an output location, and
\* the chapters were produced in list order; the spine of html_to_epub lists
\* the navigation document and then the chapter document.
C3_OnePerChapterInOrder ==
    /\ (harness = "ddia" /\ pc = "done") =>
          /\ \A n \in DOMAIN f_names : Exists(fs, ProcessedPath(DdiaArgs(f_names[n])))
          /\ Cardinality(ProcessedFiles) = Len(f_names)
          /\ produced = [n \in DOMAIN f_names |-> ChapterLabel(f_names[n])]
    /\ EpubWritten =>
          /\ book.spine = << <<"nav">>, S_chap_01 >>
          /\ \E n \in DOMAIN book.items : book.items[n].file_name = S_chap_01

\* C3 witness: ddia() ran through the whole list
C3_Witness == harness = "ddia" /\ pc = "done" /\ Len(produced) = Len(f_names)

\* C4 (as stated): once create_epub_from_html has met an img whose non-empty
\* src resolves to a file that does not exist, the run has raised.
C4_MissingImageRaises ==
    (\E j \in DOMAIN log : log[j].kind = "missing") => pc = "raised"

\* C4 (amended): a missing image never ends the run: when the run raised in the
\* img loop, the element it raised on is not one whose file is missing, and a
\* run that met a missing image still writes its output when nothing else fails.
C4_MissingImageDoesNotRaise ==
    (pc = "raised" /\ log # <<>>) => LastOf(log).kind # "missing"

\* C4 witness: a call that met a missing image has returned with its output
\* written
C4_Witness ==
    /\ PrepareReturned
    /\ \E j \in DOMAIN log : log[j].kind = "missing"
    /\ Exists(fs, ProcessedPath(args))

\* the index of the first entry of f_names whose input file is missing
FirstMissing ==
    LET M == {n \in DOMAIN f_names : ~Exists(fs, DdiaArgs(f_names[n]).html_file)}
    IN  IF M = {} THEN Len(f_names) + 1 ELSE CHOOSE n \in M : \A m \in M : n <= m

\* C5: ddia() never goes past the first entry whose input file is missing: it
\* raises FileNotFoundError there, no chapter at or after it is processed, and
\* the outputs of the earlier chapters stay in place.
C5_AbortsAtFirstMissing ==
    harness = "ddia" =>
        /\ k <= FirstMissing
        /\ (k = FirstMissing /\ k <= Len(f_names)) => pc \in {"loop", "raised"}
        /\ (pc = "raised" /\ err = "FileNotFoundError") =>
              /\ k = FirstMissing
              /\ produced = [n \in 1..(k - 1) |-> ChapterLabel(f_names[n])]
              /\ \A n \in 1..(k - 1) :
                    Exists(fs, ProcessedPath(DdiaArgs(f_names[n])))
              /\ \A n \in k..Len(f_names) :
                    ~Exists(fs, ProcessedPath(DdiaArgs(f_names[n])))

\* C5 witness: ddia() raised at a missing chapter after writing earlier ones
C5_Witness ==
    /\ harness = "ddia" /\ pc = "raised" /\ err = "FileNotFoundError"
    /\ k > 2 /\ k < Len(f_names)

\* the files under the output directory of the call
UnderOutput(at) ==
    LET out == Resolve(fs, OutputPath(args)).at
    IN  Len(at) > Len(out) /\ SubSeq(at, 1, Len(out)) = out

\* C6 (as stated): the second of two calls of prepare_html's
\* create_epub_from_html with the same arguments leaves the file system as
\* the first call left it.
C6_SecondRunChangesNothing ==
    (harness = "twice" /\ pc = "done") => fs = fs1

\* C6 (amended): the same, provided no image reference of the document
\* resolves to a file under the chapter's output directory.
C6_SecondRunChangesNothingOutside ==
    (harness = "twice" /\ pc = "done" /\ \A j \in Found : ~UnderOutput(log[j].from))
        => fs = fs1

\* C6 witness: the second call copied an image over the first call's copy
C6_Witness ==
    /\ harness = "twice" /\ pc = "done" /\ Found # {}
    /\ \A j \in Found : ~UnderOutput(log[j].from)

\* C7 (as stated): no img element of the output carries a width or a height.
C7_AllSizesStripped ==
    Finished =>
        \A n \in DOMAIN OutputDoc.els :
            OutputDoc.els[n].tag = "img" =>
                ~OutputDoc.els[n].width /\ ~OutputDoc.els[n].height

\* C7 (amended): no img element whose src is non-empty and whose resolved file
\* exists carries a width or a height in the output.
C7_FoundSizesStripped ==
    Finished =>
        \A j \in Found :
            /\ ~OutputDoc.els[OutputPos(log[j].i)].width
            /\ ~OutputDoc.els[OutputPos(log[j].i)].height

\* C7 witness: an img that came with a height was rewritten
C7_Witness ==
    Finished /\ \E j \in Found : orig.els[log[j].i].height

\* the location `src` denotes relative to the directory of the HTML file
Denoted(src) == Resolve(fs, Join(Dirname(args.html_file), src))

\* C8 (as stated): the file looked up for a non-empty relative src is the file
\* src denotes relative to the directory holding the input HTML file.
C8_ResolvedRelativeToHtml ==
    \A j \in DOMAIN log :
        (log[j].src # <<>> /\ Head(log[j].src) # SEP) =>
            Resolve(fs, log[j].img_path) = Denoted(log[j].src)

\* the img loop stands before an element it will skip: its src is empty or
\* the file at its img_path does not exist
ContentStart == IF harness = "epub" THEN EpubContent(soup) ELSE BodyOrSoup(soup)
LoopImgs == FindAll(soup, ContentStart, {"img"})
AtSkippedImg ==
    /\ pc = "imgs"
    /\ idx <= Cardinality(LoopImgs)
    /\ LET src == soup.els[Nth(LoopImgs, idx)].src
       IN  src = <<>> \/ ~Exists(fs, ImgPath(args.html_file, src))

\* C9: a step of the img loop over an element whose src is empty or whose
\* resolved file does not exist raises nothing, copies or adds no file, leaves
\* the element (its src, width and height) as it was and moves on to the next
\* img element in document order.
C9_SkipsSilently ==
    [][AtSkippedImg =>
          /\ pc' = "imgs" /\ err' = ""
          /\ idx' = idx + 1
          /\ fs' = fs /\ book' = book
          /\ soup' = soup]_vars

\* C9 witness: an element was skipped and a later one was then rewritten
C9_Witness ==
    \E i \in Skipped, j \in Found : i < j

\* the image items of the book
ImageItems == {n \in DOMAIN book.items : Head(book.items[n].file_name) = "images"}

\* C10 (as stated): after prepare_html's call every rewritten src names a file
\* under the output directory that holds the bytes of the source file the
\* original src resolved to; in html_to_epub no two image items share a name.
C10_RewrittenPointsAtSource ==
    /\ PrepareReturned =>
          \A j \in Found :
              LET p == Join(OutputPath(args), ProcessedArticle.els[OutputPos(log[j].i)].src)
              IN  Exists(fs, p) /\ ReadFile(fs, p).bytes = log[j].data
    /\ EpubWritten =>
          \A m, n \in ImageItems :
              m # n => book.items[m].file_name # book.items[n].file_name

====
